---- MODULE Spec2Model ----
(***************************************************************************)
(* Model of app.py, the Streamlit report generator.                        *)
(*                                                                         *)
(* The script is re-executed from top to bottom for every user             *)
(* interaction.  One execution is modelled as three steps, in the order    *)
(* of the script: the form handler (lines 158-180), the report action      *)
(* buttons (lines 187-204) and the report table (lines 206-234).           *)
(* st.session_state.observations survives between executions; everything   *)
(* drawn on the page belongs to one execution.                             *)
(***************************************************************************)
EXTENDS Integers, Sequences, FiniteSets, TLC

\* Number of uuid4() identifiers a session may draw (caps the submissions).
MaxIssued == 3

VARIABLES
    observations,   \* st.session_state.observations, index 1 = front
    issued,         \* how many identifiers uuid4() has handed out
    pc,             \* "idle" (page settled) | "form" | "report" | "table"
    event,          \* the widget that triggered this execution
    calls,          \* Recommendation Client calls of the current interaction
    messages,       \* st.warning / st.error / st.success / st.info / exception
    downloads,      \* st.download_button elements on the page
    clear_button,   \* "Clear Entire Report" is on the page
    table           \* rows of the report table on the page

vars == <<observations, issued, pc, event, calls, messages, downloads,
          clear_button, table>>

page == <<messages, downloads, clear_button, table>>

(***************************************************************************)
(* Values                                                                  *)
(***************************************************************************)
\* st.selectbox("Set Priority", ("Low", "Medium", "High"), index=1)
Priorities == {"Low", "Medium", "High"}

\* Python's None for the image field and for an empty file_uploader.
NoImage == "None"

\* Files a user may put in the uploader: one that opens and re-encodes as
\* PNG, one that opens but cannot be written as PNG (e.g. a CMYK JPEG), and
\* one that PIL cannot identify.
Uploads == {NoImage, "rgb.png", "cmyk.jpg", "notimage.png"}

\* Characters str.strip() removes.
Whitespace == {" ", "\t", "\n"}

\* Descriptions typed in the text area, as sequences of characters.
TextInputs == {<< >>, <<" ", "\n">>, <<"b">>, <<" ", "a", " ">>}

\* What the backend does with one generate_content call: raise, or return
\* a response whose .text is the given string.
Responses ==
    { [raised |-> TRUE,  text |-> ""],
      [raised |-> FALSE, text |-> ""],
      [raised |-> FALSE, text |-> "Isolate the line."] }

\* Python's None as a recommendation, and a returned string.
NoneRec == [some |-> FALSE, text |-> ""]
StrRec(s) == [some |-> TRUE, text |-> s]

NoEvent ==
    [kind |-> "none", text |-> << >>, upload |-> NoImage,
     priority |-> "Medium", id |-> 0]

(***************************************************************************)
(* Pure helpers                                                            *)
(***************************************************************************)
RECURSIVE lstrip(_)
lstrip(s) ==
    IF s = << >> THEN << >>
    ELSE IF Head(s) \in Whitespace THEN lstrip(Tail(s)) ELSE s

RECURSIVE rstrip(_)
rstrip(s) ==
    IF s = << >> THEN << >>
    ELSE IF s[Len(s)] \in Whitespace
         THEN rstrip(SubSeq(s, 1, Len(s) - 1)) ELSE s

\* Variant: the description is tested without stripping it.
strip_omitted(s) == s

\* observation_text.strip()
strip(s) == rstrip(lstrip(s))

\* Python truthiness of a recommendation: None and "" are falsy.
Truthy(rec) == rec.some /\ rec.text # ""

\* Image.open(uploaded_image): the image object is named after its file.
ImageOpenRaises(upload) == upload = "notimage.png"

\* obs["image"].save(buf, format='PNG') followed by pdf.image(...).
EmbedRaises(image) == image = "cmyk.jpg"

\* What generate_recommendation_with_image returns: response.text, or None
\* from the except branch (which also shows st.error).
generate_recommendation_with_image(image, text, resp) ==
    IF resp.raised THEN NoneRec ELSE StrRec(resp.text)

\* Variant: the except branch returns the error text instead of None.
generate_recommendation_returns_error(text, resp) ==
    IF resp.raised THEN StrRec("An error occurred") ELSE StrRec(resp.text)

\* What generate_recommendation_text_only returns.
generate_recommendation_text_only(text, resp) ==
    IF resp.raised THEN NoneRec ELSE StrRec(resp.text)

\* Variant: the identifier is derived from the current length of the list.
uuid4_from_length == Len(observations) + 1

\* str(uuid.uuid4()): an identifier never handed out before.
uuid4 == issued + 1

\* Variant: list.append(obs)
InsertBack(list, obs) == Append(list, obs)

\* list.insert(0, obs)
InsertFront(list, obs) == <<obs>> \o list

\* Variant: the comprehension compares the description instead of the id.
RemoveByText(list, id) ==
    LET hit == {k \in DOMAIN list : list[k].id = id} IN
    IF hit = {} THEN list
    ELSE LET text == list[CHOOSE k \in hit : TRUE].observation_text
         IN  SelectSeq(list, LAMBDA o : o.observation_text # text)

\* [o for o in list if o['id'] != id]
Remove(list, id) == SelectSeq(list, LAMBDA o : o.id # id)

\* Variant: serials count up from the front.
SerialAscending(n, i) == i + 1

\* len(observations_list) - i, with i the 0-based index of enumerate().
Serial(n, i) == n - i

(***************************************************************************)
(* to_pdf                                                                  *)
(***************************************************************************)
\* The image part of one block: nothing, the embedded image, or the note.
PdfImagePart(obs) ==
    IF obs.image = NoImage THEN << >>
    ELSE IF EmbedRaises(obs.image)
         THEN << <<"note", obs.image>> >>
         ELSE << <<"image", obs.image>> >>

PdfBlock(obs, serial) ==
    << <<"label", serial>>,
       <<"priority", obs.priority>>,
       <<"observation", obs.observation_text>>,
       <<"recommendation", obs.recommendation>> >>
    \o PdfImagePart(obs)
    \o << <<"separator", 80>> >>

RECURSIVE PdfBlocks(_, _)
PdfBlocks(list, k) ==
    IF k > Len(list) THEN << >>
    ELSE PdfBlock(list[k], Serial(Len(list), k - 1)) \o PdfBlocks(list, k + 1)

\* Variant: no try/except around the image; the export ends where the first
\* image fails, after that observation's text fields.
RECURSIVE PdfBlocksAbort(_, _)
PdfBlocksAbort(list, k) ==
    IF k > Len(list) THEN << >>
    ELSE IF list[k].image # NoImage /\ EmbedRaises(list[k].image)
         THEN SubSeq(PdfBlock(list[k], Serial(Len(list), k - 1)), 1, 4)
         ELSE PdfBlock(list[k], Serial(Len(list), k - 1))
              \o PdfBlocksAbort(list, k + 1)

to_pdf_unguarded(list) ==
    << <<"title", "Audit Report">> >> \o PdfBlocksAbort(list, 1)

to_pdf(list) == << <<"title", "Audit Report">> >> \o PdfBlocks(list, 1)

(***************************************************************************)
(* Page helpers                                                            *)
(***************************************************************************)
TableRow(list, k) ==
    [serial |-> Serial(Len(list), k - 1),
     image |-> list[k].image,
     priority |-> list[k].priority,
     observation_text |-> list[k].observation_text,
     recommendation |-> list[k].recommendation,
     remove_key |-> list[k].id]

TableRows(list, n) == [k \in 1..n |-> TableRow(list, k)]

PdfDownload(list) ==
    [file_name |-> "audit_report.pdf", mime |-> "application/pdf",
     data |-> to_pdf(list)]

\* Variant: st.stop() in place of st.rerun(); the page keeps what was drawn.
StStop(msgs, dls, cb, tbl) ==
    /\ pc' = "idle"
    /\ event' = NoEvent
    /\ messages' = msgs
    /\ downloads' = dls
    /\ clear_button' = cb
    /\ table' = tbl

\* st.rerun(): the execution is abandoned and the script starts again with
\* no widget triggered; what the abandoned execution drew is discarded.
StRerun(msgs, dls, cb, tbl) ==
    /\ pc' = "form"
    /\ event' = NoEvent
    /\ messages' = << >>
    /\ downloads' = {}
    /\ clear_button' = FALSE
    /\ table' = << >>

\* A user interaction starts a fresh execution of the script.
NewRun(ev) ==
    /\ pc = "idle"
    /\ pc' = "form"
    /\ event' = ev
    /\ calls' = << >>
    /\ messages' = << >>
    /\ downloads' = {}
    /\ clear_button' = FALSE
    /\ table' = << >>
    /\ UNCHANGED <<observations, issued>>

Init ==
    /\ observations = << >>
    /\ issued = 0
    /\ pc = "form"
    /\ event = NoEvent
    /\ calls = << >>
    /\ messages = << >>
    /\ downloads = {}
    /\ clear_button = FALSE
    /\ table = << >>

(***************************************************************************)
(* User interactions                                                       *)
(***************************************************************************)
UserSubmit ==
    /\ issued < MaxIssued
    /\ \E text \in TextInputs, upload \in Uploads, priority \in Priorities :
          NewRun([kind |-> "submit", text |-> text, upload |-> upload,
                  priority |-> priority, id |-> 0])

UserClear ==
    /\ clear_button
    /\ NewRun([NoEvent EXCEPT !.kind = "clear"])

UserRemove ==
    \E k \in DOMAIN table :
        NewRun([NoEvent EXCEPT !.kind = "remove", !.id = table[k].remove_key])

UserDownload ==
    /\ downloads # {}
    /\ NewRun([NoEvent EXCEPT !.kind = "download"])

(***************************************************************************)
(* Lines 158-180: form submission                                          *)
(***************************************************************************)
FormNotSubmitted ==
    /\ pc = "form"
    /\ event.kind # "submit"
    /\ pc' = "report"
    /\ UNCHANGED <<observations, issued, event, calls, page>>

FormEmptyDescription ==
    /\ pc = "form"
    /\ event.kind = "submit"
    /\ strip(event.text) = << >>
    /\ messages' = Append(messages, "warning")
    /\ pc' = "report"
    /\ event' = NoEvent
    /\ UNCHANGED <<observations, issued, calls, downloads, clear_button, table>>

FormImageOpenFails ==
    /\ pc = "form"
    /\ event.kind = "submit"
    /\ strip(event.text) # << >>
    /\ event.upload # NoImage
    /\ ImageOpenRaises(event.upload)
    /\ messages' = Append(messages, "exception")
    /\ pc' = "idle"
    /\ event' = NoEvent
    /\ UNCHANGED <<observations, issued, calls, downloads, clear_button, table>>

FormGenerate ==
    /\ pc = "form"
    /\ event.kind = "submit"
    /\ strip(event.text) # << >>
    /\ ~(event.upload # NoImage /\ ImageOpenRaises(event.upload))
    /\ \E resp \in Responses :
        LET image == event.upload
            entry == IF event.upload # NoImage THEN "with_image" ELSE "text_only"
            recommendation ==
                IF event.upload # NoImage
                THEN generate_recommendation_with_image(image, event.text, resp)
                ELSE generate_recommendation_text_only(event.text, resp)
            new_observation ==
                [id |-> uuid4,
                 image |-> image,
                 observation_text |-> event.text,
                 priority |-> event.priority,
                 recommendation |-> recommendation.text]
        IN  /\ calls' = Append(calls, [entry |-> entry, text |-> event.text,
                                       image |-> image, response |-> resp])
            /\ IF Truthy(recommendation)
               THEN /\ observations' = InsertFront(observations, new_observation)
                    /\ issued' = issued + 1
                    /\ messages' = Append(messages, "success")
               ELSE /\ UNCHANGED <<observations, issued>>
                    /\ messages' = IF resp.raised
                                   THEN Append(messages, "error")
                                   ELSE messages
    /\ pc' = "report"
    /\ event' = NoEvent
    /\ UNCHANGED <<downloads, clear_button, table>>

(***************************************************************************)
(* Lines 187-204: empty notice, download button, clear button              *)
(***************************************************************************)
ReportEmpty ==
    /\ pc = "report"
    /\ observations = << >>
    /\ messages' = Append(messages, "info")
    /\ pc' = "idle"
    /\ event' = NoEvent
    /\ UNCHANGED <<observations, issued, calls, downloads, clear_button, table>>

ReportButtons ==
    /\ pc = "report"
    /\ observations # << >>
    /\ event.kind # "clear"
    /\ downloads' = downloads \cup {PdfDownload(observations)}
    /\ clear_button' = TRUE
    /\ pc' = "table"
    /\ UNCHANGED <<observations, issued, event, calls, messages, table>>

ReportClear ==
    /\ pc = "report"
    /\ observations # << >>
    /\ event.kind = "clear"
    /\ observations' = << >>
    /\ StRerun(messages, downloads \cup {PdfDownload(observations)}, TRUE, table)
    /\ UNCHANGED <<issued, calls>>

(***************************************************************************)
(* Lines 206-234: report table and remove buttons                          *)
(***************************************************************************)
\* Rows whose remove button is the one that was clicked.
Clicked == {k \in DOMAIN observations :
               event.kind = "remove" /\ observations[k].id = event.id}

TableComplete ==
    /\ pc = "table"
    /\ Clicked = {}
    /\ table' = TableRows(observations, Len(observations))
    /\ pc' = "idle"
    /\ event' = NoEvent
    /\ UNCHANGED <<observations, issued, calls, messages, downloads, clear_button>>

TableRemove ==
    /\ pc = "table"
    /\ Clicked # {}
    /\ LET k == CHOOSE i \in Clicked : \A j \in Clicked : i <= j
       IN  /\ observations' = Remove(observations, observations[k].id)
           /\ StRerun(messages, downloads, clear_button, TableRows(observations, k))
    /\ UNCHANGED <<issued, calls>>

Next ==
    \/ UserSubmit
    \/ UserClear
    \/ UserRemove
    \/ UserDownload
    \/ FormNotSubmitted
    \/ FormEmptyDescription
    \/ FormImageOpenFails
    \/ FormGenerate
    \/ ReportEmpty
    \/ ReportButtons
    \/ ReportClear
    \/ TableComplete
    \/ TableRemove

Spec == Init /\ [][Next]_vars

(***************************************************************************)
(* Vocabulary of the properties                                            *)
(***************************************************************************)
Range(seq) == {seq[i] : i \in DOMAIN seq}

\* A description with no character other than whitespace.
Blank(text) == \A i \in DOMAIN text : text[i] \in Whitespace

Ids(list) == {list[i].id : i \in DOMAIN list}

\* `after` is `before` without its element at position k.
WithoutIndex(before, after, k) ==
    /\ Len(after) = Len(before) - 1
    /\ \A j \in DOMAIN after :
          after[j] = before[IF j < k THEN j ELSE j + 1]

\* The form handler is about to process a submitted, non-blank description.
SubmittingNonBlank ==
    pc = "form" /\ event.kind = "submit" /\ ~Blank(event.text)

\* The step made one Recommendation Client call.
CalledClient == Len(calls') = Len(calls) + 1

LastCall == calls'[Len(calls')]

(***************************************************************************)
(* C1: a non-blank submission whose client call returns a text response    *)
(* puts exactly one new observation, carrying the submitted text, image,   *)
(* priority and the returned text, at index 0 in front of the old Store.   *)
(***************************************************************************)
C1_Step ==
    (SubmittingNonBlank /\ CalledClient /\ ~LastCall.response.raised)
    => /\ Len(observations') = Len(observations) + 1
       /\ observations'[1].observation_text = event.text
       /\ observations'[1].image = event.upload
       /\ observations'[1].priority = event.priority
       /\ observations'[1].recommendation = LastCall.response.text
       /\ Tail(observations') = observations

\* The same step restricted to a non-empty returned text.
C1_NonEmptyStep ==
    (SubmittingNonBlank /\ CalledClient /\ ~LastCall.response.raised
        /\ LastCall.response.text # "")
    => /\ Len(observations') = Len(observations) + 1
       /\ observations'[1].observation_text = event.text
       /\ observations'[1].image = event.upload
       /\ observations'[1].priority = event.priority
       /\ observations'[1].recommendation = LastCall.response.text
       /\ Tail(observations') = observations

C1_NonEmptyResponseInserts == [][C1_NonEmptyStep]_vars

C1_SuccessInsertsAtFront == [][C1_Step]_vars

(***************************************************************************)
(* C2: when the client call raises, the Store is exactly as before, the    *)
(* failure is reported (st.error) and the call is not repeated.            *)
(***************************************************************************)
C2_Step ==
    (pc = "form" /\ CalledClient /\ LastCall.response.raised)
    => /\ observations' = observations
       /\ "error" \in Range(messages')
       /\ "success" \notin Range(messages')

C2_FailureLeavesStore == [](Len(calls) <= 1) /\ [][C2_Step]_vars

C2_Witness ==
    /\ pc = "idle"
    /\ Len(calls) = 1
    /\ calls[1].response.raised
    /\ "error" \in Range(messages)
    /\ Len(observations) = 2

(***************************************************************************)
(* C3: a blank description (empty or whitespace only), with or without an  *)
(* image attached, never reaches the Recommendation Client and never       *)
(* changes the Store.                                                      *)
(***************************************************************************)
C3_Step ==
    ((pc = "form" /\ event.kind = "submit" /\ Blank(event.text))
        \/ "warning" \in Range(messages))
    => /\ calls' = << >>
       /\ observations' = observations

C3_BlankNeverCallsClient ==
    /\ [](\A i \in DOMAIN calls : ~Blank(calls[i].text))
    /\ [][C3_Step]_vars

C3_Witness ==
    /\ pc = "idle"
    /\ "warning" \in Range(messages)
    /\ calls = << >>
    /\ Len(observations) = 1
    /\ table # << >>

(***************************************************************************)
(* C4: remove(id) takes out the observation with that id and leaves the    *)
(* others in place and in order; for an id not in the Store it changes     *)
(* nothing; removing twice equals removing once.                           *)
(***************************************************************************)
C4_Step ==
    (pc = "table" /\ event.kind = "remove")
    => \A k \in DOMAIN observations :
          observations[k].id = event.id
          => WithoutIndex(observations, observations', k)

C4_Pure ==
    \A id \in 0..(MaxIssued + 1) :
        /\ id \notin Ids(observations)
              => Remove(observations, id) = observations
        /\ Remove(Remove(observations, id), id) = Remove(observations, id)
        /\ \A k \in DOMAIN observations :
              observations[k].id = id
              => WithoutIndex(observations, Remove(observations, id), k)

C4_RemoveById == []C4_Pure /\ [][C4_Step]_vars

\* The middle one of three observations has been removed.
C4_Witness ==
    /\ pc = "idle"
    /\ Len(observations) = 2
    /\ observations[1].id = 3
    /\ observations[2].id = 1
    /\ observations[1].observation_text = observations[2].observation_text

(***************************************************************************)
(* C5: the tabular export is offered for download as audit_report.csv      *)
(* (text/csv): empty for an empty Store, otherwise a header and one row    *)
(* per observation with serials N down to 1.                               *)
(***************************************************************************)
\* The tabular encoding as the specification describes it.
to_csv(list) ==
    IF list = << >> THEN << >>
    ELSE << <<"Sr. No.", "Priority", "Observation", "Recommendation">> >>
         \o [k \in 1..Len(list) |->
                <<Serial(Len(list), k - 1), list[k].priority,
                  list[k].observation_text, list[k].recommendation>>]

C5_CsvDownloadOffered ==
    (pc = "idle" /\ "exception" \notin Range(messages))
    => \E d \in downloads :
          /\ d.file_name = "audit_report.csv"
          /\ d.mime = "text/csv"
          /\ d.data = to_csv(observations)

(***************************************************************************)
(* C6: an image that cannot be re-encoded does not make the PDF export     *)
(* fail: the observation's label, priority, text and recommendation are    *)
(* emitted, a note stands in for the image, the separator follows, and     *)
(* every other observation has its block too.                              *)
(***************************************************************************)
IsElem(doc, p, kind, val) ==
    p \in DOMAIN doc /\ doc[p][1] = kind /\ doc[p][2] = val

HasBlock(doc, list, k) ==
    \E p \in DOMAIN doc :
        /\ IsElem(doc, p, "label", Len(list) - (k - 1))
        /\ IsElem(doc, p + 1, "priority", list[k].priority)
        /\ IsElem(doc, p + 2, "observation", list[k].observation_text)
        /\ IsElem(doc, p + 3, "recommendation", list[k].recommendation)
        /\ IF list[k].image = NoImage
           THEN IsElem(doc, p + 4, "separator", 80)
           ELSE /\ IsElem(doc, p + 4,
                          IF EmbedRaises(list[k].image) THEN "note" ELSE "image",
                          list[k].image)
                /\ IsElem(doc, p + 5, "separator", 80)

C6_BadImageDoesNotAbortPdf ==
    /\ (pc = "table" => downloads # {})
    /\ \A d \in downloads :
          \A k \in DOMAIN observations : HasBlock(d.data, observations, k)

C6_Witness ==
    /\ pc = "idle"
    /\ Len(observations) = 3
    /\ observations[1].image = "cmyk.jpg"
    /\ observations[2].image = "rgb.png"
    /\ observations[3].image = "cmyk.jpg"
    /\ \E d \in downloads : \E p \in DOMAIN d.data : d.data[p][1] = "note"

(***************************************************************************)
(* C7: in the PDF and in the on-screen table the observation at index i    *)
(* of N carries serial N - i: blocks and rows follow the snapshot order    *)
(* and the serials run N, N-1, ..., 1.                                     *)
(***************************************************************************)
Labels(doc) ==
    SelectSeq(doc, LAMBDA e : e[1] = "label" \/ e[1] = "observation")

C7_SerialsCountDown ==
    LET n == Len(observations) IN
    /\ \A d \in downloads :
          /\ Len(Labels(d.data)) = 2 * n
          /\ \A k \in 1..n :
                /\ Labels(d.data)[2 * k - 1][2] = n - k + 1
                /\ Labels(d.data)[2 * k][2] = observations[k].observation_text
    /\ \A k \in DOMAIN table :
          /\ k <= n
          /\ table[k].serial = n - k + 1
          /\ table[k].remove_key = observations[k].id
    /\ (pc = "idle" /\ downloads # {}) => Len(table) = n

C7_Witness ==
    /\ pc = "idle"
    /\ Len(table) = 3
    /\ table[1].serial = 3
    /\ table[3].serial = 1
    /\ downloads # {}

(***************************************************************************)
(* C8: the ids of the stored observations are pairwise distinct.           *)
(***************************************************************************)
C8_IdsDistinct ==
    \A i, j \in DOMAIN observations :
        i # j => observations[i].id # observations[j].id

\* One observation was removed and a later one inserted.
C8_Witness ==
    /\ issued = 3
    /\ Len(observations) = 2
    /\ observations[1].id = 3
    /\ observations[2].id = 2

(***************************************************************************)
(* C9: no operation rewrites a stored observation or reorders the Store:   *)
(* a step leaves the Store alone, puts one observation in front, removes   *)
(* one by id, or empties it.                                               *)
(***************************************************************************)
C9_Kept ==
    \/ observations' = observations
    \/ \A i \in DOMAIN observations : \A j \in DOMAIN observations' :
        observations[i].id = observations'[j].id
        => /\ observations[i] = observations'[j]
           /\ \A i2 \in DOMAIN observations : \A j2 \in DOMAIN observations' :
                 (observations[i2].id = observations'[j2].id /\ i < i2)
                 => j < j2

C9_Shape ==
    \/ observations' = observations
    \/ observations' # << >> /\ Tail(observations') = observations
    \/ \E k \in DOMAIN observations :
          WithoutIndex(observations, observations', k)
    \/ observations' = << >>

C9_ObservationsImmutable == [][C9_Kept /\ C9_Shape]_vars

\* An export (download click) being served from a Store of three.
C9_Witness ==
    /\ pc = "table"
    /\ event.kind = "download"
    /\ Len(observations) = 3

(***************************************************************************)
(* C10: once the page has settled, the PDF offered is the encoding of the  *)
(* Store as it is now, and an empty Store offers no PDF.                   *)
(***************************************************************************)
C10_SettledPdfIsCurrent ==
    pc = "idle"
    => /\ \A d \in downloads :
             /\ d.file_name = "audit_report.pdf"
             /\ d.mime = "application/pdf"
             /\ d.data = to_pdf(observations)
       /\ observations = << >> => downloads = {}
       /\ (observations # << >> /\ "exception" \notin Range(messages))
             => downloads # {}

\* Two observations were stored and the newer one was removed.
C10_Witness ==
    /\ pc = "idle"
    /\ issued = 2
    /\ Len(observations) = 1
    /\ observations[1].id = 1
    /\ downloads # {}

====
